---- MODULE Spec2Model ----
(***************************************************************************)
(* One invocation of the attribute macro `enum_builder` (src/lib.rs),      *)
(* together with the pure helpers it calls.  The inputs of an invocation   *)
(* are the call site's file, the macro's argument list, the annotated item *)
(* and the file system under and around the scan root.                     *)
(***************************************************************************)
EXTENDS Integers, Sequences, FiniteSets, TLC

\* Bounds of the model.
MaxArgs == 2      \* arguments in the macro's argument list
MaxDecls == 2     \* top-level declarations in the whole file system

VARIABLES
    local_file,     \* Span::call_site().local_file(): [some, path]
    attrs,          \* the macro's argument list, as written
    item,           \* the annotated item, a token sequence
    files,          \* file path -> [status, items] for the .rs files
    readdir,        \* the order in which the file system lists names
    pc,             \* position in enum_builder
    dir,            \* the scan root being computed
    parsed_item,    \* parse_macro_input!(item)
    pending,        \* arguments the `for attr in attrs` loop has not seen
    enum_name,      \* item_enum.ident
    entries,        \* entries WalkDir has not yielded yet
    enum_variants,  \* Vec<String> of rendered variants
    reads,          \* paths passed to fs::read_to_string, in order
    result          \* what the invocation produced

inputs == <<local_file, attrs, item, files, readdir>>
vars == <<local_file, attrs, item, files, readdir, pc, dir, parsed_item,
          pending, enum_name, entries, enum_variants, reads, result>>

----------------------------------------------------------------------------
\* Paths.  A path is absolute or relative and has a list of components.

Rel(c) == [abs |-> FALSE, comps |-> c]
AbsPath(c) == [abs |-> TRUE, comps |-> c]

\* Path::parent
Parent(p) == [p EXCEPT !.comps = SubSeq(p.comps, 1, Len(p.comps) - 1)]

\* Path::join: an absolute argument replaces the path it is joined onto.
Join(base, p) ==
    IF p.abs THEN p ELSE [base EXCEPT !.comps = base.comps \o p.comps]

Child(d, n) == [d EXCEPT !.comps = Append(d.comps, n)]

----------------------------------------------------------------------------
\* The file system: the layout of the repository's tests, plus a directory
\* outside the crate.

TestsDir == Rel(<<"tests">>)
MoreAnimalsDir == Rel(<<"tests", "more_animals">>)
ZooDir == AbsPath(<<"zoo">>)

CallSite == Rel(<<"tests", "test_enum_builder.rs">>)
ChickenFile == Rel(<<"tests", "more_animals", "chicken.rs">>)
NotesFile == Rel(<<"tests", "more_animals", "notes.txt">>)
LionFile == AbsPath(<<"zoo", "lion.rs">>)

Dirs == {TestsDir, MoreAnimalsDir, ZooDir}
RsFiles == {CallSite, ChickenFile, LionFile}
AllFiles == RsFiles \cup {NotesFile}
Names == {"test_enum_builder.rs", "more_animals", "chicken.rs", "notes.txt",
          "lion.rs"}

\* Path::extension of the last component.
Extension(p) ==
    IF p.comps = <<>> THEN "none"
    ELSE LET n == p.comps[Len(p.comps)]
         IN  IF n \in {"test_enum_builder.rs", "chicken.rs", "lion.rs"} THEN "rs"
             ELSE IF n = "notes.txt" THEN "txt"
             ELSE "none"

\* Path::is_dir
IsDir(p) == p \in Dirs

Ok(p) == [ok |-> TRUE, path |-> p]
Err(p) == [ok |-> FALSE, path |-> p]

RECURSIVE WalkDir(_, _), WalkList(_, _, _)
\* WalkDir::new(root): the root first, then the content of each directory in
\* the order the file system lists it, depth first.  A root that does not
\* exist yields one error.
WalkDir(root, order) ==
    IF root \in AllFiles THEN <<Ok(root)>>
    ELSE IF root \in Dirs
         THEN <<Ok(root)>> \o
              WalkList(root,
                       SelectSeq(order,
                                 LAMBDA n : Child(root, n) \in Dirs \cup AllFiles),
                       order)
         ELSE <<Err(root)>>
WalkList(d, names, order) ==
    IF names = <<>> THEN <<>>
    ELSE WalkDir(Child(d, Head(names)), order) \o WalkList(d, Tail(names), order)

----------------------------------------------------------------------------
\* Attributes and top-level declarations of a scanned file.

\* syn::Attribute: the shape of its meta, its path (segments) and, for a
\* list, the tokens between the parentheses.
Attr(meta, path, tokens) == [meta |-> meta, path |-> path, tokens |-> tokens]

MarkerPath == <<"enum_builder_variant">>

MarkFor(g) == Attr("List", MarkerPath, <<g>>)

\* syn::Item of a scanned file: its shape, attributes, name and generic
\* parameter list (tokens, angle brackets included; empty when there is none).
Decl(shape, as, ident, generics) ==
    [shape |-> shape, attrs |-> as, ident |-> ident, generics |-> generics]

NoGenerics == <<>>
LifetimeA == <<"<", "'a", ">">>

Declarations ==
    { Decl("struct", <<MarkFor("Animal")>>, "Dog", NoGenerics),
      Decl("struct", <<Attr("List", <<"derive">>, <<"Animal">>), MarkFor("Pet")>>,
           "Cat", NoGenerics),
      Decl("type", <<MarkFor("Animal")>>, "Snake", LifetimeA),
      Decl("fn", <<MarkFor("Animal")>>, "Goat", NoGenerics),
      Decl("union", <<MarkFor("Pet"), MarkFor("Animal")>>, "Dog", LifetimeA),
      Decl("enum", <<Attr("Path", MarkerPath, <<>>), MarkFor("Animal")>>,
           "Cow", NoGenerics),
      Decl("struct",
           <<Attr("List", <<"enum_builder", "enum_builder_variant">>, <<"Animal">>)>>,
           "Fish", NoGenerics) }

RECURSIVE valid_variant_any_path(_, _)
\* valid_variant without the comparison of the attribute's path.
valid_variant_any_path(name, as) ==
    IF as = <<>> THEN FALSE
    ELSE LET attr == Head(as)
         IN  IF attr.meta = "List" /\ attr.tokens = <<name>> THEN TRUE
             ELSE valid_variant_any_path(name, Tail(as))

RECURSIVE valid_variant_any_group(_, _)
\* valid_variant without the comparison of the argument with the enum's name.
valid_variant_any_group(name, as) ==
    IF as = <<>> THEN FALSE
    ELSE LET attr == Head(as)
         IN  IF attr.meta = "List" /\ attr.path = MarkerPath THEN TRUE
             ELSE valid_variant_any_group(name, Tail(as))

\* valid_variant giving up at the first attribute that does not match.
valid_variant_first_only(name, as) ==
    IF as = <<>> THEN FALSE
    ELSE LET attr == Head(as)
         IN  attr.meta = "List" /\ attr.path = MarkerPath /\ attr.tokens = <<name>>

RECURSIVE valid_variant(_, _)
\* fn valid_variant(enum_name, attrs): the loop over the attributes.
valid_variant(name, as) ==
    IF as = <<>> THEN FALSE
    ELSE LET attr == Head(as)
         IN  IF attr.meta = "List"
             THEN IF attr.path # MarkerPath
                  THEN valid_variant(name, Tail(as))
                  ELSE IF attr.tokens = <<name>>
                       THEN TRUE
                       ELSE valid_variant(name, Tail(as))
             ELSE valid_variant(name, Tail(as))

\* The match arms with one for functions.
MatchArmWithFn(shape) == shape \in {"struct", "type", "enum", "union", "fn"}

\* The arms of `match item` that do not `continue`.
MatchArm(shape) == shape \in {"struct", "type", "enum", "union"}

\* format!("{}({}{})", ident, ident, generics)
Variant(ident, generics) == <<ident, "(", ident>> \o generics \o <<")">>

RECURSIVE CollectVariants(_, _)
\* `for item in syntax.items`: the variants one file adds, in source order.
CollectVariants(name, items) ==
    IF items = <<>> THEN <<>>
    ELSE LET it == Head(items)
             rest == CollectVariants(name, Tail(items))
         IN  IF MatchArm(it.shape) /\ valid_variant(name, it.attrs)
             THEN <<Variant(it.ident, it.generics)>> \o rest
             ELSE rest

\* The push at the front instead of the back.
PushFront(vs, new) == new \o vs

\* enum_variants.push, once per variant a file adds.
Push(vs, new) == vs \o new

----------------------------------------------------------------------------
\* The annotated item and the macro's argument list.

\* The attributes of the item that follow the macro's own.
OuterAttrs == {"#[enum_dispatch]"}

RECURSIVE LeadingAttrs(_)
LeadingAttrs(toks) ==
    IF toks # <<>> /\ Head(toks) \in OuterAttrs
    THEN <<Head(toks)>> \o LeadingAttrs(Tail(toks))
    ELSE <<>>

\* parse_macro_input!(item) as syn::Item: attributes, keyword, name, rest.
ParseItem(toks) ==
    LET as == LeadingAttrs(toks)
        n == Len(as)
    IN  [attrs |-> as, kind |-> toks[n + 1], ident |-> toks[n + 2],
         body |-> SubSeq(toks, n + 3, Len(toks))]

\* Item::to_token_stream
ItemTokens(it) == it.attrs \o <<it.kind, it.ident>> \o it.body

NoItem == [attrs |-> <<>>, kind |-> "", ident |-> "", body |-> <<>>]

\* The pattern accepting structs as well.
IsEnumOrStruct(it) == it.kind \in {"enum", "struct"}

\* The pattern accepting every item.
IsAnyItem(it) == TRUE

\* `let Enum(item_enum) = parsed_item`
IsEnum(it) == it.kind = "enum"

Items ==
    { <<"enum", "Animal", "{", "}">>,
      <<"#[enum_dispatch]", "enum", "Animal", "{", "}">>,
      <<"enum", "Animal", "{", "Rock", "}">>,
      <<"enum", "Pet", "{", "}">>,
      <<"struct", "Animal", "{", "}">>,
      <<"fn", "Animal", "(", ")", "{", "}">> }

\* One argument of the macro: `name = value`, or a bare word.  A value is the
\* text of an expression, cut where a path separator stands.
Q == "\""
NameValue(name, value) == [meta |-> "NameValue", path |-> name, value |-> value]
BareWord(name) == [meta |-> "Path", path |-> name, value |-> <<>>]

Args ==
    { NameValue("path", <<Q, "more_animals", Q>>),
      NameValue("path", <<Q, "/", "zoo", Q>>),
      NameValue("path", <<Q, "chicken.rs", Q>>),
      NameValue("path", <<Q, "nowhere", Q>>),
      NameValue("other", <<Q, "more_animals", Q>>),
      BareWord("strict") }

\* Punctuated::<MetaNameValue, Token![,]>::parse_terminated
ParsesAsNameValues(as) == \A i \in 1..Len(as) : as[i].meta = "NameValue"

RECURSIVE TrimStart(_, _)
TrimStart(s, c) == IF s # <<>> /\ Head(s) = c THEN TrimStart(Tail(s), c) ELSE s
RECURSIVE TrimEnd(_, _)
TrimEnd(s, c) ==
    IF s # <<>> /\ s[Len(s)] = c THEN TrimEnd(SubSeq(s, 1, Len(s) - 1), c) ELSE s

\* str::trim_matches
TrimMatches(s, c) == TrimEnd(TrimStart(s, c), c)

\* The path a string denotes.
PathOf(s) ==
    [abs |-> s # <<>> /\ Head(s) = "/",
     comps |-> SelectSeq(s, LAMBDA c : c # "/")]

\* The test of the argument's name that lets every name through.
IsAnyArg(a) == TRUE

\* `if name != "path" { continue; }`
IsPathArg(a) == a.path = "path"

----------------------------------------------------------------------------
\* Reading and parsing a scanned file.

Statuses == {"ok", "unreadable", "unparsable"}

\* fs::read_to_string
ReadToString(file) == [ok |-> file.status # "unreadable"]

\* syn::parse_file taken to yield no item for a file it cannot parse.
ParseFileLenient(file) ==
    [ok |-> TRUE,
     items |-> IF file.status = "unparsable" THEN <<>> ELSE file.items]

\* syn::parse_file
ParseFile(file) ==
    IF file.status = "unparsable"
    THEN [ok |-> FALSE, items |-> <<>>]
    ELSE [ok |-> TRUE, items |-> file.items]

----------------------------------------------------------------------------
\* What an invocation hands back to the compiler.

NoPath == Rel(<<>>)

Outcome(kind, tokens, msg, path, name, variants) ==
    [kind |-> kind, tokens |-> tokens, msg |-> msg, path |-> path,
     name |-> name, variants |-> variants]

NoResult == Outcome("none", <<>>, "", NoPath, "", <<>>)

\* The item, handed back.
Returned(toks) == Outcome("item", toks, "", NoPath, "", <<>>)

\* The compile_error! tokens parse_macro_input! returns.
CompileError == Outcome("compile_error", <<>>, "", NoPath, "", <<>>)

\* The panic of `expect`, with the message naming the path.
Panic(msg, p) == Outcome("panic", <<>>, msg, p, "", <<>>)

\* format!("#[enum_dispatch]\nenum {enum_name}<'a> {{ {} }}", ...)
Emitted(name, variants) ==
    Outcome("enum", <<"#[enum_dispatch]", "enum", name, "<", "'a", ">">>, "",
            NoPath, name, variants)

----------------------------------------------------------------------------
\* The inputs of an invocation.

Some(p) == [some |-> TRUE, path |-> p]
None == [some |-> FALSE, path |-> NoPath]

SeqsUpTo(S, n) == UNION {[1..k -> S] : k \in 0..n}

RECURSIVE Placed(_, _, _)
\* The declarations of ds that `where` puts in file f, in their order.
Placed(ds, where, f) ==
    IF ds = <<>> THEN <<>>
    ELSE (IF Head(where) = f THEN <<Head(ds)>> ELSE <<>>)
         \o Placed(Tail(ds), Tail(where), f)

\* Every way of writing at most MaxDecls declarations into the .rs files.
Contents ==
    UNION { { [f \in RsFiles |-> Placed(ds, where, f)] :
              where \in [1..Len(ds) -> RsFiles] } :
            ds \in SeqsUpTo(Declarations, MaxDecls) }

FileSystems ==
    { [f \in RsFiles |-> [status |-> st[f], items |-> c[f]]] :
      st \in [RsFiles -> Statuses], c \in Contents }

\* The file system the arguments are tried on: a marked declaration in every
\* file, and at most one file that cannot be read or parsed.
SampleContent ==
    [f \in RsFiles |->
        IF f = CallSite
        THEN <<Decl("struct", <<MarkFor("Animal")>>, "Dog", NoGenerics),
               Decl("struct", <<MarkFor("Pet")>>, "Cat", NoGenerics)>>
        ELSE IF f = ChickenFile
        THEN <<Decl("struct", <<MarkFor("Animal")>>, "Chicken", LifetimeA)>>
        ELSE <<Decl("union", <<MarkFor("Pet"), MarkFor("Animal")>>, "Lion",
                    NoGenerics)>>]

SampleFileSystems ==
    { [f \in RsFiles |->
          [status |-> IF f = bad THEN st ELSE "ok", items |-> SampleContent[f]]] :
      bad \in RsFiles, st \in Statuses }

\* The file system lists names in one order or in the opposite one.
Orders ==
    { <<"test_enum_builder.rs", "more_animals", "chicken.rs", "notes.txt", "lion.rs">>,
      <<"lion.rs", "notes.txt", "chicken.rs", "more_animals", "test_enum_builder.rs">> }

ScanArgs ==
    { <<>>,
      <<NameValue("path", <<Q, "more_animals", Q>>)>>,
      <<NameValue("path", <<Q, "/", "zoo", Q>>)>> }

Idle ==
    /\ pc = "start"
    /\ dir = NoPath
    /\ parsed_item = NoItem
    /\ pending = <<>>
    /\ enum_name = ""
    /\ entries = <<>>
    /\ enum_variants = <<>>
    /\ reads = <<>>
    /\ result = NoResult

\* An empty enumeration and few arguments, over every file system.
InitScan ==
    /\ local_file = Some(CallSite)
    /\ attrs \in ScanArgs
    /\ item = <<"enum", "Animal", "{", "}">>
    /\ files \in FileSystems
    /\ readdir \in Orders
    /\ Idle

\* Every item and argument list, over the sample file systems.
InitArgs ==
    /\ local_file \in {None, Some(CallSite)}
    /\ attrs \in SeqsUpTo(Args, MaxArgs)
    /\ item \in Items
    /\ files \in SampleFileSystems
    /\ readdir \in Orders
    /\ Idle

Init == InitScan \/ InitArgs

----------------------------------------------------------------------------
\* enum_builder, step by step.

Finish(r) ==
    /\ result' = r
    /\ pc' = "done"

\* `let Some(dir) = Span::call_site().local_file() else { return item; }`
LocalFileNone ==
    /\ pc = "start"
    /\ ~local_file.some
    /\ Finish(Returned(item))
    /\ UNCHANGED <<inputs, dir, parsed_item, pending, enum_name, entries,
                   enum_variants, reads>>

\* dir = dir.parent(); parsed_item = parse_macro_input!(item).  The compiler
\* hands an attribute macro an item it has parsed itself, so the item parses.
LocalFileSome ==
    /\ pc = "start"
    /\ local_file.some
    /\ dir' = Parent(local_file.path)
    /\ parsed_item' = ParseItem(item)
    /\ enum_variants' = <<>>
    /\ pc' = "parse_attrs"
    /\ UNCHANGED <<inputs, pending, enum_name, entries, reads, result>>

\* parse_macro_input!(attrs with ...) on a list that is not name = value pairs
ParseAttrsError ==
    /\ pc = "parse_attrs"
    /\ ~ParsesAsNameValues(attrs)
    /\ Finish(CompileError)
    /\ UNCHANGED <<inputs, dir, parsed_item, pending, enum_name, entries,
                   enum_variants, reads>>

ParseAttrsOk ==
    /\ pc = "parse_attrs"
    /\ ParsesAsNameValues(attrs)
    /\ pending' = attrs
    /\ pc' = "for_attr"
    /\ UNCHANGED <<inputs, dir, parsed_item, enum_name, entries, enum_variants,
                   reads, result>>

\* `if name != "path" { continue; }`
SkipAttr ==
    /\ pc = "for_attr"
    /\ pending # <<>>
    /\ ~IsPathArg(Head(pending))
    /\ pending' = Tail(pending)
    /\ UNCHANGED <<inputs, pc, dir, parsed_item, enum_name, entries,
                   enum_variants, reads, result>>

\* dir = dir.join(value.to_string().trim_matches('"'))
JoinPath ==
    /\ pc = "for_attr"
    /\ pending # <<>>
    /\ IsPathArg(Head(pending))
    /\ dir' = Join(dir, PathOf(TrimMatches(Head(pending).value, Q)))
    /\ pending' = Tail(pending)
    /\ UNCHANGED <<inputs, pc, parsed_item, enum_name, entries, enum_variants,
                   reads, result>>

\* `let Enum(item_enum) = parsed_item else { return parsed_item... }`
NotAnEnum ==
    /\ pc = "for_attr"
    /\ pending = <<>>
    /\ ~IsEnum(parsed_item)
    /\ Finish(Returned(ItemTokens(parsed_item)))
    /\ UNCHANGED <<inputs, dir, parsed_item, pending, enum_name, entries,
                   enum_variants, reads>>

\* enum_name = item_enum.ident; WalkDir::new(dir)
StartWalk ==
    /\ pc = "for_attr"
    /\ pending = <<>>
    /\ IsEnum(parsed_item)
    /\ enum_name' = parsed_item.ident
    /\ entries' = WalkDir(dir, readdir)
    /\ pc' = "walk"
    /\ UNCHANGED <<inputs, dir, parsed_item, pending, enum_variants, reads, result>>

IsSourceFile(e) == e.ok /\ ~IsDir(e.path) /\ Extension(e.path) = "rs"

\* The three `continue`s at the head of the walk's body.
SkipEntry ==
    /\ pc = "walk"
    /\ entries # <<>>
    /\ ~IsSourceFile(Head(entries))
    /\ entries' = Tail(entries)
    /\ UNCHANGED <<inputs, pc, dir, parsed_item, pending, enum_name,
                   enum_variants, reads, result>>

\* fs::read_to_string(path).expect("unable to read file ...")
ReadError ==
    /\ pc = "walk"
    /\ entries # <<>>
    /\ IsSourceFile(Head(entries))
    /\ LET path == Head(entries).path
       IN  /\ ~ReadToString(files[path]).ok
           /\ reads' = Append(reads, path)
           /\ Finish(Panic("unable to read file", path))
    /\ UNCHANGED <<inputs, dir, parsed_item, pending, enum_name, entries,
                   enum_variants>>

\* syn::parse_file(&src).expect("unable to parse file ...")
ParseError ==
    /\ pc = "walk"
    /\ entries # <<>>
    /\ IsSourceFile(Head(entries))
    /\ LET path == Head(entries).path
       IN  /\ ReadToString(files[path]).ok
           /\ ~ParseFile(files[path]).ok
           /\ reads' = Append(reads, path)
           /\ Finish(Panic("unable to parse file", path))
    /\ UNCHANGED <<inputs, dir, parsed_item, pending, enum_name, entries,
                   enum_variants>>

\* The file is read and parsed, and its items are gone through.
ScanFile ==
    /\ pc = "walk"
    /\ entries # <<>>
    /\ IsSourceFile(Head(entries))
    /\ LET path == Head(entries).path
       IN  /\ ReadToString(files[path]).ok
           /\ ParseFile(files[path]).ok
           /\ reads' = Append(reads, path)
           /\ enum_variants' =
                  Push(enum_variants,
                       CollectVariants(enum_name, ParseFile(files[path]).items))
    /\ entries' = Tail(entries)
    /\ UNCHANGED <<inputs, pc, dir, parsed_item, pending, enum_name, result>>

\* The walk is over: the enumeration is emitted.
Emit ==
    /\ pc = "walk"
    /\ entries = <<>>
    /\ Finish(Emitted(enum_name, enum_variants))
    /\ UNCHANGED <<inputs, dir, parsed_item, pending, enum_name, entries,
                   enum_variants, reads>>

Next ==
    \/ LocalFileNone
    \/ LocalFileSome
    \/ ParseAttrsError
    \/ ParseAttrsOk
    \/ SkipAttr
    \/ JoinPath
    \/ NotAnEnum
    \/ StartWalk
    \/ SkipEntry
    \/ ReadError
    \/ ParseError
    \/ ScanFile
    \/ Emit

Spec == Init /\ [][Next]_vars

----------------------------------------------------------------------------
\* Vocabulary of the properties.

Done == pc = "done"

IsPrefix(s, t) == Len(s) <= Len(t) /\ SubSeq(t, 1, Len(s)) = s

\* p is root itself or lies below it.
Under(root, p) == p.abs = root.abs /\ IsPrefix(root.comps, p.comps)

\* The group being built: the name of the annotated item.
Group == ParseItem(item).ident

TargetIsEnum == ParseItem(item).kind = "enum"

\* An enumeration that declares no variant.
TargetIsEmptyEnum == TargetIsEnum /\ ParseItem(item).body = <<"{", "}">>

\* The invocation got past both parse_macro_input!s.
ArgsAccepted == local_file.some /\ \A i \in DOMAIN attrs : attrs[i].meta = "NameValue"

\* The arguments have all been applied: dir is the scan root.
RootSettled == ArgsAccepted /\ (pc = "walk" \/ pc = "done")

\* d carries a list-shaped enum_builder_variant annotation naming g.
MarkedFor(d, g) ==
    \E i \in DOMAIN d.attrs :
        /\ d.attrs[i].meta = "List"
        /\ d.attrs[i].path = <<"enum_builder_variant">>
        /\ d.attrs[i].tokens = <<g>>

TypeShapes == {"struct", "type", "enum", "union"}

Qualifies(d, g) == d.shape \in TypeShapes /\ MarkedFor(d, g)

\* <Name>(<Name><Generics>)
VariantFor(d) == <<d.ident, "(", d.ident>> \o d.generics \o <<")">>

\* The .rs files under the scan root.
FilesUnderRoot == {f \in RsFiles : Under(dir, f)}

RootExists == dir \in Dirs \cup AllFiles

EmittedEnum == Done /\ result.kind = "enum"

Unreadable(f) == files[f].status # "ok"

\* C1: every type declaration under the scan root that is marked for the
\* group has a variant in the emitted enumeration, named after it and
\* wrapping <Name><Generics> with the generics as declared.
C1_DiscoveryComplete ==
    EmittedEnum =>
        /\ result.name = Group
        /\ \A f \in FilesUnderRoot :
               \A i \in DOMAIN files[f].items :
                   Qualifies(files[f].items[i], Group) =>
                       \E k \in DOMAIN result.variants :
                           result.variants[k] = VariantFor(files[f].items[i])

\* The call site's file and a file of a sub-directory both hold a marked
\* declaration, one of them with generics and two markers.
C1_Witness ==
    /\ EmittedEnum
    /\ dir = TestsDir
    /\ \E i \in DOMAIN files[CallSite].items :
           Qualifies(files[CallSite].items[i], Group)
    /\ \E i \in DOMAIN files[ChickenFile].items :
           /\ Qualifies(files[ChickenFile].items[i], Group)
           /\ files[ChickenFile].items[i].generics # <<>>
           /\ Len(files[ChickenFile].items[i].attrs) = 2

\* C2: every variant of the emitted enumeration comes from a declaration of
\* a .rs file under the scan root that carries a list-shaped
\* enum_builder_variant annotation naming exactly the group.
C2_DiscoverySound ==
    EmittedEnum =>
        \A k \in DOMAIN result.variants :
            \E f \in FilesUnderRoot :
                \E i \in DOMAIN files[f].items :
                    /\ MarkedFor(files[f].items[i], Group)
                    /\ result.variants[k] = VariantFor(files[f].items[i])

\* A declaration marked for another group lies under the root, a declaration
\* marked for the group lies outside it, and a variant was emitted.
C2_Witness ==
    /\ EmittedEnum
    /\ result.variants # <<>>
    /\ \E f \in FilesUnderRoot :
           \E i \in DOMAIN files[f].items :
               /\ ~MarkedFor(files[f].items[i], Group)
               /\ \E g \in {"Animal", "Pet"} : MarkedFor(files[f].items[i], g)
    /\ \E f \in RsFiles \ FilesUnderRoot :
           \E i \in DOMAIN files[f].items : Qualifies(files[f].items[i], Group)

\* The original statement of C3: an item that is not an empty enumeration,
\* an enumeration that already declares variants included, is handed back
\* unchanged (taken with an argument list that parses and a scan that meets
\* no unreadable file).
C3_Original ==
    (Done /\ ArgsAccepted /\ ~TargetIsEmptyEnum /\ result.kind # "panic") =>
        result = Returned(item)

\* C3, amended: an item that is not an enumeration is handed back unchanged,
\* with no diagnostic, when the invoking file is unknown or the argument list
\* parses as name = value pairs; an enumeration that already declares
\* variants is scanned for like an empty one and is never handed back.
C3_NoOpOnNonEnum ==
    /\ (Done /\ ~TargetIsEnum /\ (local_file.some => ArgsAccepted)) =>
           result = Returned(item)
    /\ (Done /\ TargetIsEnum /\ ArgsAccepted) => result.kind \in {"enum", "panic"}

\* A struct with arguments was handed back with the call site known.
C3_Witness ==
    /\ Done
    /\ local_file.some
    /\ attrs # <<>>
    /\ ParseItem(item).kind = "struct"
    /\ result = Returned(item)

\* The concatenation of the components of the values named `path`.
RECURSIVE PathSuffix(_)
PathSuffix(as) ==
    IF as = <<>> THEN <<>>
    ELSE (IF Head(as).path = "path"
          THEN SelectSeq(Head(as).value, LAMBDA c : c \notin {Q, "/"})
          ELSE <<>>) \o PathSuffix(Tail(as))

IsAbsoluteValue(a) == Len(a.value) >= 2 /\ a.value[1] = Q /\ a.value[2] = "/"

\* The index of the last `path` argument with an absolute value, or 0.
LastAbsolute ==
    LET S == {i \in DOMAIN attrs : attrs[i].path = "path" /\ IsAbsoluteValue(attrs[i])}
    IN  IF S = {} THEN 0 ELSE CHOOSE i \in S : \A j \in S : j <= i

InvokingDir == Rel(<<"tests">>)

\* The original statement of C4: the scan root is the invoking file's
\* directory with the `path` values appended, never a replacement of it.
C4_Original ==
    RootSettled =>
        dir = [abs |-> InvokingDir.abs,
               comps |-> InvokingDir.comps \o PathSuffix(attrs)]

\* C4, amended: a relative `path` value is appended to the invoking file's
\* directory and an absolute one replaces what was built so far; arguments
\* with another name change nothing; only files under that root are read.
C4_PathOverride ==
    RootSettled =>
        /\ dir = IF LastAbsolute = 0
                 THEN [abs |-> InvokingDir.abs,
                       comps |-> InvokingDir.comps \o PathSuffix(attrs)]
                 ELSE [abs |-> TRUE,
                       comps |-> PathSuffix(SubSeq(attrs, LastAbsolute, Len(attrs)))]
        /\ \A i \in DOMAIN reads : Under(dir, reads[i])

\* `path = "more_animals"` next to an argument of another name: only the file
\* of the sub-directory was read, though the call site's file is marked too.
C4_Witness ==
    /\ EmittedEnum
    /\ \E i \in DOMAIN attrs : attrs[i].path = "other"
    /\ \E i \in DOMAIN attrs : attrs[i].path = "path"
    /\ dir = MoreAnimalsDir
    /\ reads = <<ChickenFile>>
    /\ \E i \in DOMAIN files[CallSite].items :
           Qualifies(files[CallSite].items[i], Group)

MessageFor(f) ==
    IF files[f].status = "unreadable" THEN "unable to read file"
    ELSE "unable to parse file"

\* C5: a .rs file of the walk that cannot be read or parsed ends the
\* invocation in a panic naming that file, whatever the file holds, and no
\* enumeration is emitted from a tree that holds such a file.
C5_FatalScanErrors ==
    /\ \A i \in DOMAIN reads :
           Unreadable(reads[i]) =>
               /\ i = Len(reads)
               /\ Done
               /\ result = Panic(MessageFor(reads[i]), reads[i])
    /\ EmittedEnum => \A f \in FilesUnderRoot : ~Unreadable(f)
    /\ (Done /\ ArgsAccepted /\ TargetIsEnum /\ \E f \in FilesUnderRoot : Unreadable(f))
           => result.kind = "panic"

\* A file with a marked declaration was scanned, then a file without any
\* marked declaration could not be parsed.
C5_Witness ==
    /\ Done
    /\ result.kind = "panic"
    /\ Len(reads) = 2
    /\ \E i \in DOMAIN files[reads[1]].items :
           Qualifies(files[reads[1]].items[i], Group)
    /\ files[reads[2]].status = "unparsable"
    /\ files[reads[2]].items = <<>>

\* No declaration under the scan root is marked for the group.
NothingMarked ==
    \A f \in FilesUnderRoot :
        \A i \in DOMAIN files[f].items : ~MarkedFor(files[f].items[i], Group)

\* The original statement of C6: a scan root that does not exist, holds no
\* .rs file or holds no declaration marked for the group yields an empty
\* enumeration, without abort.
C6_Original ==
    (Done /\ ArgsAccepted /\ TargetIsEnum
          /\ (~RootExists \/ FilesUnderRoot = {} \/ NothingMarked)) =>
        /\ result.kind = "enum"
        /\ result.name = Group
        /\ result.variants = <<>>

\* C6, amended: the same, provided every .rs file under the scan root can be
\* read and parsed (and the invoking file is known and the arguments parse).
C6_EmptyScan ==
    (Done /\ ArgsAccepted /\ TargetIsEnum
          /\ (\A f \in FilesUnderRoot : ~Unreadable(f))
          /\ (~RootExists \/ FilesUnderRoot = {} \/ NothingMarked)) =>
        /\ result.kind = "enum"
        /\ result.name = Group
        /\ result.variants = <<>>

\* A file marked for another group only was scanned; nothing was emitted
\* for this group.
C6_Witness ==
    /\ EmittedEnum
    /\ result.variants = <<>>
    /\ RootExists
    /\ \E i \in DOMAIN reads :
           \E j \in DOMAIN files[reads[i]].items :
               /\ files[reads[i]].items[j].shape \in TypeShapes
               /\ \E g \in {"Animal", "Pet"} : MarkedFor(files[reads[i]].items[j], g)

RECURSIVE InOrder(_, _)
\* The qualifying declarations of the files of `paths`, file after file and,
\* within a file, in source order.
InOrder(paths, g) ==
    IF paths = <<>> THEN <<>>
    ELSE LET its == files[Head(paths)].items
             q == SelectSeq(its, LAMBDA d : Qualifies(d, g))
         IN  [i \in 1..Len(q) |-> VariantFor(q[i])] \o InOrder(Tail(paths), g)

\* C7: the variants stand in discovery order: the files in the order the
\* walk read them, each file's declarations in source order.
C7_DiscoveryOrder ==
    EmittedEnum =>
        /\ LET w == SelectSeq(WalkDir(dir, readdir),
                              LAMBDA e : e.ok /\ e.path \in RsFiles)
           IN  reads = [i \in 1..Len(w) |-> w[i].path]
        /\ result.variants = InOrder(reads, Group)

\* The sub-directory's file was read before the call site's, and each gave a
\* variant; the one of the sub-directory comes first.
C7_Witness ==
    /\ EmittedEnum
    /\ reads = <<ChickenFile, CallSite>>
    /\ Len(result.variants) = 2
    /\ result.variants[1] # result.variants[2]
    /\ \E i \in DOMAIN files[ChickenFile].items :
           VariantFor(files[ChickenFile].items[i]) = result.variants[1]

\* C8: no two variants of the emitted enumeration bear the same name.
C8_NoDuplicateVariants ==
    EmittedEnum =>
        \A j, k \in DOMAIN result.variants :
            j # k => result.variants[j][1] # result.variants[k][1]

\* C9: every variant comes from a struct, type alias, enum or union; a
\* function marked for the group gives none.
C9_ShapeFiltering ==
    EmittedEnum =>
        /\ \A k \in DOMAIN result.variants :
               \E f \in FilesUnderRoot :
                   \E i \in DOMAIN files[f].items :
                       /\ files[f].items[i].shape \in TypeShapes
                       /\ result.variants[k] = VariantFor(files[f].items[i])
        /\ Len(result.variants) =
               Len(InOrder(reads, Group))

\* A function marked for the group was scanned.
C9_Witness ==
    /\ EmittedEnum
    /\ \E i \in DOMAIN reads :
           \E j \in DOMAIN files[reads[i]].items :
               /\ files[reads[i]].items[j].shape = "fn"
               /\ MarkedFor(files[reads[i]].items[j], Group)

====
